---- MODULE Spec2Model ----
(***************************************************************************)
(* cmpsh (src/requirement/req.c): a mini shell with pipe support.          *)
(*                                                                         *)
(* The parent (the Supervisor) reads a line, splits it on '|', and for     *)
(* every command creates a pipe (but for the last one), forks a child      *)
(* which redirects its standard input and output and calls execvp, closes  *)
(* its own copies of the pipe ends, and finally waits once per command.    *)
(*                                                                         *)
(* Strings are sequences of one-character strings.  A file-descriptor      *)
(* table is a function from the open descriptor numbers to the open file   *)
(* each names: <<"tty", 0>>, or <<"r", p>> / <<"w", p>> for the read and   *)
(* the write end of the pipe created for stage p of the current line.      *)
(*                                                                         *)
(* SpecTrim runs trim alone on every short segment.  SpecExamples runs the *)
(* three programs of src/examples (shared memory, semaphore, message       *)
(* queue), each a parent and the child it forks, side by side.             *)
(***************************************************************************)
EXTENDS Integers, Sequences, FiniteSets, TLC

\* ------------------------------------------------------------ constants

MAX_CMDS == 10

MAX_ARGS == 20

STDIN_FILENO == 0

STDOUT_FILENO == 1

\* Bounds of the model.
MaxStages == 3

PipeCap == 2

MaxTrimLen == 4

\* ------------------------------------------------------------ strings

SP == " "

NL == "\n"

BAR == "|"

\* strtok finds the tokens of s: the maximal runs of characters other than
\* the delimiter d.  A token starts where a non-delimiter follows a
\* delimiter or begins the string.
TokenStarts(s, d) ==
    {a \in 1..Len(s) : s[a] # d /\ (a = 1 \/ s[a - 1] = d)}

\* The token of s that starts at a: it ends before the next delimiter.
TokenAt(s, d, a) ==
    SubSeq(s, a, CHOOSE b \in a..Len(s) :
                     /\ \A c \in a..b : s[c] # d
                     /\ (b = Len(s) \/ s[b + 1] = d))

\* The tokens the loop `token = strtok(..); while (token && n < limit)`
\* collects: the first `limit` tokens of s, in order.
StrtokLimited(s, d, limit) ==
    LET starts == TokenStarts(s, d)
        n == IF Cardinality(starts) < limit THEN Cardinality(starts) ELSE limit
    IN  [k \in 1..n |->
            TokenAt(s, d, CHOOSE a \in starts :
                              Cardinality({x \in starts : x < a}) = k - 1)]

RECURSIVE SkipSpaces(_)
\* trim, line 15: while (*str == ' ') str++;
SkipSpaces(s) ==
    IF s # <<>> /\ Head(s) = SP THEN SkipSpaces(Tail(s)) ELSE s

RECURSIVE DropTrailing(_)
\* trim, lines 16-17: while (end > str && (*end == ' ' || *end == '\n'))
\* *end-- = '\0';  the first character is never removed.
DropTrailing(s) ==
    IF Len(s) > 1 /\ s[Len(s)] \in {SP, NL}
    THEN DropTrailing(SubSeq(s, 1, Len(s) - 1))
    ELSE s

trim(str) == DropTrailing(SkipSpaces(str))

\* parse_args: at most MAX_ARGS - 1 space-separated tokens (args[i] = NULL
\* closes the vector).
parse_args(cmd) == StrtokLimited(cmd, SP, MAX_ARGS - 1)

\* A shell without the exit check: "exit" is a command like any other.
IsExitNever(line) == FALSE

\* Line 40: strncmp(input, "exit", 4) == 0.
IsExit(line) ==
    Len(line) >= 4 /\ SubSeq(line, 1, 4) = <<"e", "x", "i", "t">>

\* Lines 45-50: the commands of a line, at most MAX_CMDS of them, trimmed.
SplitCmds(line) ==
    LET toks == StrtokLimited(line, BAR, MAX_CMDS)
    IN  [k \in 1..Len(toks) |-> trim(toks[k])]

\* The number of pipe-separated segments strtok finds in a line, unlimited.
Segments(line) == StrtokLimited(line, BAR, Len(line))

\* All the space-separated tokens strtok finds in a command, unlimited.
Words(cmd) == StrtokLimited(cmd, SP, Len(cmd))

\* ------------------------------------------------------------ descriptors

TTY == <<"tty", 0>>

RD(p) == <<"r", p>>

WR(p) == <<"w", p>>

NoFds == [fd \in {} |-> TTY]

\* The table a process starts with: standard input, output and error.
StdFds == [fd \in 0..2 |-> TTY]

\* The lowest descriptor number not open in table t.
LowestFree(t) ==
    CHOOSE n \in 0..Cardinality(DOMAIN t) :
        n \notin DOMAIN t /\ \A m \in 0..(n - 1) : m \in DOMAIN t

\* close(fd): fd is no longer open (EBADF, and no change, when it was not).
Close(t, fd) == [f \in (DOMAIN t) \ {fd} |-> t[f]]

\* dup2(old, new): new names old's open file (EBADF, and no change, when old
\* is not open).
Dup2(t, old, new) ==
    IF old \notin DOMAIN t THEN t
    ELSE [f \in (DOMAIN t) \cup {new} |-> IF f = new THEN t[old] ELSE t[f]]

\* pipe(pipefd) for stage p: the two lowest free descriptors, read end first.
PipeFds(t) ==
    LET r == LowestFree(t)
        w == LowestFree([f \in (DOMAIN t) \cup {r} |-> TTY])
    IN  <<r, w>>

PipeTable(t, p) ==
    LET pf == PipeFds(t)
    IN  [f \in (DOMAIN t) \cup {pf[1], pf[2]} |->
            IF f = pf[1] THEN RD(p) ELSE IF f = pf[2] THEN WR(p) ELSE t[f]]

\* ChildRedirect without close(pipefd[0]): the child keeps the read end of
\* its own output pipe.
ChildRedirectKeepsRead(t, prev, pfds, i, n) ==
    LET t1 == IF prev # -1
              THEN Close(Dup2(t, prev, STDIN_FILENO), prev)
              ELSE t
    IN  IF i < n - 1
        THEN Close(Dup2(t1, pfds[2], STDOUT_FILENO), pfds[2])
        ELSE t1

\* ChildRedirect without dup2(pipefd[1], STDOUT_FILENO): the child closes
\* the pipe and writes to the inherited output.
ChildRedirectNoOutput(t, prev, pfds, i, n) ==
    LET t1 == IF prev # -1
              THEN Close(Dup2(t, prev, STDIN_FILENO), prev)
              ELSE t
    IN  IF i < n - 1 THEN Close(Close(t1, pfds[1]), pfds[2]) ELSE t1

\* Lines 67-77, the child of stage i of n: redirect input if not the first
\* command, output if not the last.
ChildRedirect(t, prev, pfds, i, n) ==
    LET t1 == IF prev # -1
              THEN Close(Dup2(t, prev, STDIN_FILENO), prev)
              ELSE t
    IN  IF i < n - 1
        THEN Close(Close(Dup2(t1, pfds[2], STDOUT_FILENO), pfds[1]), pfds[2])
        ELSE t1

\* ParentClose without close(prev_fd): the parent keeps the read end of the
\* previous stage's pipe.
ParentCloseKeepsPrev(t, prev, pfds, i, n) ==
    IF i < n - 1 THEN Close(t, pfds[2]) ELSE t

\* ParentClose without close(pipefd[1]): the parent keeps the write end.
ParentCloseKeepsWrite(t, prev, pfds, i, n) ==
    IF prev # -1 THEN Close(t, prev) ELSE t

\* The parent closing pipefd[1] after every fork, the last stage's too,
\* where pipefd still holds the descriptors of the stage before.
ParentCloseCallsStale(prev, pfds, i, n) ==
    (IF prev # -1 THEN <<prev>> ELSE <<>>) \o <<pfds[2]>>

\* Lines 88-91: the descriptors the parent passes to close() after the fork
\* of stage i of n, in order.
ParentCloseCalls(prev, pfds, i, n) ==
    (IF prev # -1 THEN <<prev>> ELSE <<>>)
        \o (IF i < n - 1 THEN <<pfds[2]>> ELSE <<>>)

RECURSIVE CloseAll(_, _)
\* The table after close(fd) for every fd of the sequence fds.
CloseAll(t, fds) ==
    IF fds = <<>> THEN t ELSE CloseAll(Close(t, Head(fds)), Tail(fds))

RECURSIVE LogCloses(_, _, _)
\* The record of the close calls: what each call closed, the pipe end the
\* descriptor named or, for a descriptor that is not open, EBADF.
LogCloses(log, t, fds) ==
    IF fds = <<>> THEN log
    ELSE LogCloses(Append(log, IF Head(fds) \in DOMAIN t THEN t[Head(fds)]
                               ELSE <<"EBADF", Head(fds)>>),
                   Close(t, Head(fds)), Tail(fds))

\* Lines 88-92, the parent after the fork of stage i of n: the descriptor
\* table it is left with.
ParentClose(t, prev, pfds, i, n) ==
    CloseAll(t, ParentCloseCalls(prev, pfds, i, n))

\* Lines 89-92: prev_fd for the next stage.
NextPrevFd(prev, pfds, i, n) == IF i < n - 1 THEN pfds[1] ELSE prev

\* A wait loop that stops one short: for (i = 0; i < num_cmds - 1; ++i).
WaitCountOneShort(n) == n - 1

\* Line 96: the number of wait calls for a line of n commands.
WaitCount(n) == n

\* ------------------------------------------------------------ input lines

PrintfW == <<"p", "r", "i", "n", "t", "f">>

TrueW == <<"t", "r", "u", "e">>

CatW == <<"c", "a", "t">>

WcW == <<"w", "c">>

NopeW == <<"n", "o", "p", "e">>

Letters == <<"a", "b", "c", "d", "e", "f">>

\* The commands the lines are made of, each an argument vector.  printf
\* writes its first argument; the longest one does not fit a pipe buffer.
CmdTrue == <<TrueW>>

CmdOne == <<PrintfW, SubSeq(Letters, 1, 1)>>

CmdBig == <<PrintfW, SubSeq(Letters, 1, PipeCap + 1)>>

CmdCat == <<CatW>>

CmdWc == <<WcW>>

CmdNope == <<NopeW>>

Heads == {CmdTrue, CmdOne, CmdBig, CmdNope}

Tails == {CmdCat, CmdWc, CmdNope}

RECURSIVE Join(_, _)
\* The elements of the sequence of strings ws, sep between each two.
Join(ws, sep) ==
    IF ws = <<>> THEN <<>>
    ELSE IF Len(ws) = 1 THEN ws[1]
    ELSE ws[1] \o sep \o Join(Tail(ws), sep)

\* The text of a pipeline as typed: "cmd arg | cmd | cmd\n".
Render(pl) ==
    Join([k \in 1..Len(pl) |-> Join(pl[k], <<SP>>)], <<SP, BAR, SP>>) \o <<NL>>

Pipelines(n) ==
    UNION {{pl \in [1..m -> Heads \cup Tails] :
               pl[1] \in Heads /\ \A k \in 2..m : pl[k] \in Tails} : m \in 1..n}

ExitLine == <<"e", "x", "i", "t", NL>>

ExitFooLine == <<"e", "x", "i", "t", "f", "o", "o", NL>>

BlankLine == <<NL>>

BarLine == <<BAR, NL>>

\* "true | | wc": a segment that is empty after trimming.
EmptySegLine == TrueW \o <<SP, BAR, SP, BAR, SP>> \o WcW \o <<NL>>

\* MAX_CMDS + 1 segments: "nope|nope|...|nope".
LongLine == Join([k \in 1..(MAX_CMDS + 1) |-> NopeW], <<BAR>>) \o <<NL>>

\* MAX_ARGS + 1 tokens: "true x x ... x".
ManyArgsLine ==
    Join([k \in 1..(MAX_ARGS + 1) |-> IF k = 1 THEN TrueW ELSE <<"x">>],
         <<SP>>) \o <<NL>>

Lines ==
    {Render(pl) : pl \in Pipelines(MaxStages)}
        \cup {ExitLine, ExitFooLine, BlankLine, BarLine, EmptySegLine,
              ManyArgsLine}

LongLines ==
    {LongLine, ExitLine, Render(<<CmdNope>>), Render(<<CmdOne, CmdWc>>),
     Render(<<CmdOne, CmdCat, CmdNope>>)}

\* ------------------------------------------------------------ state

VARIABLES
    pc,        \* the parent: "prompt", "pipe", "fork", "close", "wait",
               \* "done" (return 0) or "exit1" (exit(1))
    input,     \* the line fgets read last
    eof,       \* fgets returned NULL
    cmds,      \* cmds[1..num_cmds], the trimmed commands of the line
    i,         \* the spawn loop's index
    j,         \* the wait loop's index
    prev_fd,   \* the read end left by the previous stage, or -1
    pipefd,    \* <<read end, write end>> of the pipe created last
    pfd,       \* the parent's descriptor table
    proc,      \* proc[k]: the child forked for stage k of the line
    buf,       \* buf[p]: the bytes in the pipe of stage p
    npipes,    \* pipes created for the line
    nforks,    \* children forked for the line
    errs,      \* perror("execvp") reports for the line
    failed,    \* the call that made the parent exit(1): "", "pipe" or "fork"
    closed     \* what the parent's close calls for the line closed, in order

\* trim called on a string of its own.
VARIABLES
    str,       \* the argument
    ret,       \* what the last call returned
    calls      \* 0: not called, 1: ret = trim(str), 2: ret = trim(trim(str))

\* The three programs of src/examples, each a parent and the child it forks.
VARIABLES
    shm,       \* shared_memory.c: the segment
    shmpc,     \* where its parent and child are
    shmout,    \* the strings its parent read and printed
    sem,       \* semaphores.c: the semaphore set
    sempc,     \* where its parent and child are
    semout,    \* the lines printed
    msq,       \* message_queus.c: the queue
    msqpc,     \* where its parent and child are
    msqin      \* the messages its parent received

shellvars ==
    <<pc, input, eof, cmds, i, j, prev_fd, pipefd, pfd, proc, buf, npipes,
      nforks, errs, failed, closed>>

trimvars == <<str, ret, calls>>

shmvars == <<shm, shmpc, shmout>>

semvars == <<sem, sempc, semout>>

msqvars == <<msq, msqpc, msqin>>

\* What the shell does not touch.
others == <<trimvars, shmvars, semvars, msqvars>>

vars == <<shellvars, others>>

num_cmds == Len(cmds)

Stages == 0..(MAX_CMDS - 1)

NoProc ==
    [st |-> "none", fds |-> NoFds, xfds |-> NoFds, prev_fd |-> -1,
     pipefd |-> <<-1, -1>>, status |-> 0, prog |-> "", out |-> <<>>,
     got |-> <<>>, xfail |-> FALSE]

Alive(k) == proc[k].st \in {"forked", "running"}

\* What a process leaves when it terminates: a zombie with its status.
Exited(p, status) ==
    [p EXCEPT !.st = "zombie", !.fds = NoFds, !.status = status, !.out = <<>>]

Holds(t, d) == \E fd \in DOMAIN t : t[fd] = d

\* The processes (the parent is -1) that hold an open copy of d.
Holders(d) ==
    {k \in Stages : Alive(k) /\ Holds(proc[k].fds, d)}
        \cup (IF Holds(pfd, d) THEN {-1} ELSE {})

\* A shell that runs its commands one after the other: it leaves the spawn
\* loop for the wait loop as soon as the first stage has been forked.
LoopTopWaitsEarly(n, m) ==
    IF n >= m THEN (IF WaitCount(m) > 0 THEN "wait" ELSE "prompt")
    ELSE IF n >= 1 THEN "wait"
    ELSE IF n < m - 1 THEN "pipe" ELSE "fork"

\* The first statement of the spawn loop for stage n of m commands, or what
\* follows the loop.
LoopTop(n, m) ==
    IF n >= m THEN (IF WaitCount(m) > 0 THEN "wait" ELSE "prompt")
    ELSE IF n < m - 1 THEN "pipe" ELSE "fork"

\* No call of trim on its own.
TrimIdle ==
    /\ str = <<>>
    /\ ret = <<>>
    /\ calls = 0

\* shared_memory.c at the start of main: no segment, no child.
ShmInit ==
    /\ shm = [state |-> "none", nattch |-> 0, mem |-> <<>>]
    /\ shmpc = [parent |-> "shmget", child |-> "none"]
    /\ shmout = <<>>

\* semaphores.c at the start of main.
SemInit ==
    /\ sem = [state |-> "none", val |-> 0]
    /\ sempc = [parent |-> "semget", child |-> "none"]
    /\ semout = <<>>

\* message_queus.c at the start of main: the key names no queue yet.
MsqInit ==
    /\ msq = [state |-> "none", queue |-> <<>>]
    /\ msqpc = [parent |-> "msgget", child |-> "none"]
    /\ msqin = <<>>

ExamplesInit == ShmInit /\ SemInit /\ MsqInit

\* cmpsh before its first prompt.
ShellInit ==
    /\ pc = "prompt"
    /\ input = <<>>
    /\ eof = FALSE
    /\ cmds = <<>>
    /\ i = 0
    /\ j = 0
    /\ prev_fd = -1
    /\ pipefd = <<-1, -1>>
    /\ pfd = StdFds
    /\ proc = [k \in Stages |-> NoProc]
    /\ buf = [p \in Stages |-> <<>>]
    /\ npipes = 0
    /\ nforks = 0
    /\ errs = 0
    /\ failed = ""
    /\ closed = <<>>

Init == ShellInit /\ TrimIdle /\ ExamplesInit

\* ------------------------------------------------------------ the parent

\* The process table without the children the parent has reaped.
Unreaped == [k \in Stages |-> IF proc[k].st = "reaped" THEN NoProc ELSE proc[k]]

\* Lines 36-53: print the prompt, read a line; "exit" leaves the loop,
\* any other line is split into its commands and the spawn loop starts.
\* prev_fd and pipefd are new objects in every iteration; pipefd is not
\* initialised and is not read before pipe() fills it.
ReadLine(line) ==
    /\ pc = "prompt"
    /\ input' = line
    /\ npipes' = 0
    /\ nforks' = 0
    /\ errs' = 0
    /\ proc' = Unreaped
    /\ IF IsExit(line)
       THEN /\ pc' = "done"
            /\ UNCHANGED <<cmds, i, j, prev_fd, pipefd, buf>>
       ELSE /\ cmds' = SplitCmds(line)
            /\ i' = 0
            /\ j' = 0
            /\ prev_fd' = -1
            /\ pipefd' = <<-1, -1>>
            /\ buf' = [p \in Stages |-> <<>>]
            /\ pc' = LoopTop(0, Len(SplitCmds(line)))
    /\ UNCHANGED <<eof, pfd, failed>>
    /\ closed' = <<>>
    /\ UNCHANGED others

\* Line 37: fgets returns NULL at the end of the input; main returns 0.
ReadEOF ==
    /\ pc = "prompt"
    /\ eof' = TRUE
    /\ pc' = "done"
    /\ npipes' = 0
    /\ nforks' = 0
    /\ errs' = 0
    /\ proc' = Unreaped
    /\ UNCHANGED <<input, cmds, i, j, prev_fd, pipefd, pfd, buf, failed>>
    /\ closed' = <<>>
    /\ UNCHANGED others

\* Line 56, pipe() succeeds.
PipeOk ==
    /\ pc = "pipe"
    /\ pipefd' = PipeFds(pfd)
    /\ pfd' = PipeTable(pfd, i)
    /\ npipes' = npipes + 1
    /\ pc' = "fork"
    /\ UNCHANGED <<input, eof, cmds, i, j, prev_fd, proc, buf, nforks, errs,
                   failed>>
    /\ UNCHANGED <<closed, others>>

\* exit(1): the process ends and its descriptors are closed.
ParentExit1(why) ==
    /\ failed' = why
    /\ pc' = "exit1"
    /\ pfd' = NoFds
    /\ UNCHANGED <<input, eof, cmds, i, j, prev_fd, pipefd, proc, buf, npipes,
                   nforks, errs>>
    /\ UNCHANGED <<closed, others>>

\* Lines 56-59, pipe() fails: perror("pipe"); exit(1).
PipeFail ==
    /\ pc = "pipe"
    /\ ParentExit1("pipe")

\* Line 61, fork() succeeds: the child starts with a copy of the parent's
\* descriptors and variables.
ForkOk ==
    /\ pc = "fork"
    /\ proc' = [proc EXCEPT ![i] =
                   [NoProc EXCEPT !.st = "forked", !.fds = pfd,
                                  !.prev_fd = prev_fd, !.pipefd = pipefd]]
    /\ nforks' = nforks + 1
    /\ pc' = "close"
    /\ UNCHANGED <<input, eof, cmds, i, j, prev_fd, pipefd, pfd, buf, npipes,
                   errs, failed>>
    /\ UNCHANGED <<closed, others>>

\* Lines 62-64, fork() fails: perror("fork"); exit(1).
ForkFail ==
    /\ pc = "fork"
    /\ ParentExit1("fork")

\* Lines 88-93: the parent closes its copies and goes to the next stage.
ParentCloses ==
    /\ pc = "close"
    /\ pfd' = ParentClose(pfd, prev_fd, pipefd, i, num_cmds)
    /\ prev_fd' = NextPrevFd(prev_fd, pipefd, i, num_cmds)
    /\ i' = i + 1
    /\ pc' = LoopTop(i + 1, num_cmds)
    /\ UNCHANGED <<input, eof, cmds, j, pipefd, proc, buf, npipes, nforks,
                   errs, failed>>
    /\ closed' = LogCloses(closed, pfd,
                         ParentCloseCalls(prev_fd, pipefd, i, num_cmds))
    /\ UNCHANGED others

\* Line 96, one wait(NULL): it reaps a terminated child, blocks while
\* children run and none has terminated, and fails at once (ECHILD) when
\* the parent has no child.
Wait ==
    /\ pc = "wait"
    /\ IF \E k \in Stages : proc[k].st \in {"forked", "running", "zombie"}
       THEN \E k \in Stages :
                /\ proc[k].st = "zombie"
                /\ proc' = [proc EXCEPT ![k].st = "reaped"]
       ELSE UNCHANGED proc
    /\ j' = j + 1
    /\ pc' = IF j + 1 < WaitCount(num_cmds) THEN "wait" ELSE "prompt"
    /\ UNCHANGED <<input, eof, cmds, i, prev_fd, pipefd, pfd, buf, npipes,
                   nforks, errs, failed>>
    /\ UNCHANGED <<closed, others>>

\* ------------------------------------------------------------ the children

\* The programs execvp finds; any other name is not found.
ProgOf(args) ==
    IF args = <<>> THEN ""
    ELSE IF args[1] = PrintfW THEN "printf"
    ELSE IF args[1] = TrueW THEN "true"
    ELSE IF args[1] = CatW THEN "cat"
    ELSE IF args[1] = WcW THEN "wc"
    ELSE ""

\* What the program will write: printf writes its first argument.
StartOut(args) ==
    IF ProgOf(args) = "printf" /\ Len(args) >= 2 THEN args[2] ELSE <<>>

\* exit(0) after a failed execvp.
ExecFailStatusZero == 1 - 1

\* Lines 83-84: the status of a child whose execvp returned.
ExecFailStatus == 1

\* How execvp(args[0], args) ends.  With an empty command args[0] is NULL,
\* which the call is not defined for: it returns an error or the child is
\* killed by a segmentation fault.
ExecOutcomes(args) ==
    IF args = <<>> THEN {"error", "segv"}
    ELSE IF ProgOf(args) = "" THEN {"error"}
    ELSE {"ok"}

\* A child without the exit(1) of line 84: when execvp returns it reports
\* and falls out of the if-block into the parent's code of line 88, as a
\* second shell.
ChildExecReturns(k) ==
    /\ proc[k].st = "forked"
    /\ \E args \in {parse_args(cmds[k + 1])} :
       \E t \in {ChildRedirect(proc[k].fds, proc[k].prev_fd, proc[k].pipefd,
                               k, num_cmds)} :
       \E how \in ExecOutcomes(args) :
           /\ proc' = [proc EXCEPT ![k] =
                 IF how = "ok"
                 THEN [proc[k] EXCEPT !.st = "running", !.fds = t, !.xfds = t,
                                      !.prog = ProgOf(args),
                                      !.out = StartOut(args)]
                 ELSE IF how = "segv"
                 THEN [Exited(proc[k], 139) EXCEPT !.xfds = t, !.xfail = TRUE]
                 ELSE [proc[k] EXCEPT !.st = "shell", !.fds = t, !.xfds = t,
                                      !.xfail = TRUE]]
           /\ errs' = IF how = "error" THEN errs + 1 ELSE errs
    /\ UNCHANGED <<pc, input, eof, cmds, i, j, prev_fd, pipefd, pfd, buf,
                   npipes, nforks, failed>>
    /\ UNCHANGED <<closed, others>>

\* Lines 65-85, the child of stage k: redirect, parse the command, execvp;
\* if execvp returns, perror("execvp") and exit(1).
ChildExec(k) ==
    /\ proc[k].st = "forked"
    /\ \E args \in {parse_args(cmds[k + 1])} :
       \E t \in {ChildRedirect(proc[k].fds, proc[k].prev_fd, proc[k].pipefd,
                               k, num_cmds)} :
       \E how \in ExecOutcomes(args) :
           /\ proc' = [proc EXCEPT ![k] =
                 IF how = "ok"
                 THEN [proc[k] EXCEPT !.st = "running", !.fds = t, !.xfds = t,
                                      !.prog = ProgOf(args),
                                      !.out = StartOut(args)]
                 ELSE [Exited(proc[k], IF how = "segv" THEN 139
                                       ELSE ExecFailStatus)
                          EXCEPT !.xfds = t, !.xfail = TRUE]]
           /\ errs' = IF how = "error" THEN errs + 1 ELSE errs
    /\ UNCHANGED <<pc, input, eof, cmds, i, j, prev_fd, pipefd, pfd, buf,
                   npipes, nforks, failed>>
    /\ UNCHANGED <<closed, others>>

\* The pipe a descriptor of process k names, as end e ("r" or "w"), or -1.
PipeAt(k, fd, e) ==
    LET t == proc[k].fds
    IN  IF fd \in DOMAIN t /\ t[fd][1] = e THEN t[fd][2] ELSE -1

\* cat and wc read a byte from standard input: a read on an empty pipe
\* blocks.  cat holds one byte at a time; wc keeps what it has received.
WorkerRead(k) ==
    /\ proc[k].st = "running"
    /\ proc[k].prog \in {"cat", "wc"}
    /\ proc[k].out = <<>>
    /\ LET p == PipeAt(k, STDIN_FILENO, "r")
       IN  /\ p # -1
           /\ buf[p] # <<>>
           /\ buf' = [buf EXCEPT ![p] = Tail(buf[p])]
           /\ proc' = [proc EXCEPT ![k] =
                 IF proc[k].prog = "cat"
                 THEN [proc[k] EXCEPT !.out = <<Head(buf[p])>>]
                 ELSE [proc[k] EXCEPT !.got = Append(proc[k].got, Head(buf[p]))]]
    /\ UNCHANGED <<pc, input, eof, cmds, i, j, prev_fd, pipefd, pfd, npipes,
                   nforks, errs, failed>>
    /\ UNCHANGED <<closed, others>>

\* End of stream: the pipe is empty and no process holds its write end;
\* cat and wc then exit with status 0.
WorkerEof(k) ==
    /\ proc[k].st = "running"
    /\ proc[k].prog \in {"cat", "wc"}
    /\ proc[k].out = <<>>
    /\ LET p == PipeAt(k, STDIN_FILENO, "r")
       IN  /\ p # -1
           /\ buf[p] = <<>>
           /\ Holders(WR(p)) = {}
    /\ proc' = [proc EXCEPT ![k] = Exited(proc[k], 0)]
    /\ UNCHANGED <<pc, input, eof, cmds, i, j, prev_fd, pipefd, pfd, buf,
                   npipes, nforks, errs, failed>>
    /\ UNCHANGED <<closed, others>>

\* A write of one byte to standard output: to the terminal, or to a pipe,
\* where it blocks while the buffer is full and kills the writer (SIGPIPE)
\* when no process holds the read end.
WorkerWrite(k) ==
    /\ proc[k].st = "running"
    /\ proc[k].out # <<>>
    /\ LET p == PipeAt(k, STDOUT_FILENO, "w")
       IN  IF p = -1
           THEN /\ proc' = [proc EXCEPT ![k].out = Tail(proc[k].out)]
                /\ UNCHANGED buf
           ELSE IF Holders(RD(p)) = {}
           THEN /\ proc' = [proc EXCEPT ![k] = Exited(proc[k], 141)]
                /\ UNCHANGED buf
           ELSE /\ Len(buf[p]) < PipeCap
                /\ buf' = [buf EXCEPT ![p] = Append(buf[p], Head(proc[k].out))]
                /\ proc' = [proc EXCEPT ![k].out = Tail(proc[k].out)]
    /\ UNCHANGED <<pc, input, eof, cmds, i, j, prev_fd, pipefd, pfd, npipes,
                   nforks, errs, failed>>
    /\ UNCHANGED <<closed, others>>

\* printf and true exit with status 0 once they have written everything.
WorkerExit(k) ==
    /\ proc[k].st = "running"
    /\ proc[k].prog \in {"printf", "true"}
    /\ proc[k].out = <<>>
    /\ proc' = [proc EXCEPT ![k] = Exited(proc[k], 0)]
    /\ UNCHANGED <<pc, input, eof, cmds, i, j, prev_fd, pipefd, pfd, buf,
                   npipes, nforks, errs, failed>>
    /\ UNCHANGED <<closed, others>>

\* ------------------------------------------------------------ specifications

Child(k) ==
    \/ ChildExec(k)
    \/ WorkerRead(k)
    \/ WorkerEof(k)
    \/ WorkerWrite(k)
    \/ WorkerExit(k)

Children == \E k \in Stages : Child(k)

Parent ==
    \/ PipeOk
    \/ PipeFail
    \/ ForkOk
    \/ ForkFail
    \/ ParentCloses
    \/ Wait

Next ==
    \/ \E line \in Lines : ReadLine(line)
    \/ ReadEOF
    \/ Parent
    \/ Children

Spec == Init /\ [][Next]_vars

\* The same program reading lines that exceed MAX_CMDS commands.
NextLong ==
    \/ \E line \in LongLines : ReadLine(line)
    \/ ReadEOF
    \/ Parent
    \/ Children

SpecLong == Init /\ [][NextLong]_vars

\* Fair scheduling: the parent takes a step it can take (a wait that can
\* return returns), and while some child is not blocked on a pipe, a child
\* runs.  No line has to be typed.
Fairness ==
    /\ WF_vars(Parent)
    /\ WF_vars(Children)

SpecFair == Init /\ [][Next]_vars /\ Fairness

\* ------------------------------------------------------------ trim alone

\* The characters trim tells apart: the space, the newline, any other.
TrimChars == {SP, NL, "a"}

\* The segments strtok(.., "|") hands to trim: not empty.
TrimInputs == UNION {[1..n -> TrimChars] : n \in 1..MaxTrimLen}

InitTrim ==
    /\ ShellInit
    /\ ExamplesInit
    /\ str \in TrimInputs
    /\ ret = <<>>
    /\ calls = 0

\* Line 49: trim(token).
TrimFirst ==
    /\ calls = 0
    /\ ret' = trim(str)
    /\ calls' = 1
    /\ UNCHANGED <<str, shellvars, shmvars, semvars, msqvars>>

\* trim called on what trim returned.
TrimAgain ==
    /\ calls = 1
    /\ ret' = trim(ret)
    /\ calls' = 2
    /\ UNCHANGED <<str, shellvars, shmvars, semvars, msqvars>>

NextTrim == TrimFirst \/ TrimAgain

SpecTrim == InitTrim /\ [][NextTrim]_vars

\* ------------------------------------------------------------ the examples

\* "Hello from child!", the string the child of shared_memory.c and of
\* message_queus.c copies.
Hello ==
    <<"H", "e", "l", "l", "o", " ", "f", "r", "o", "m", " ",
      "c", "h", "i", "l", "d", "!">>

ExUnchanged(v) == UNCHANGED <<shellvars, trimvars>> /\ UNCHANGED v

\* shared_memory.c ----------------------------------------------------------

\* Line 11: shmget creates a segment, zero-filled, attached nowhere.
ShmGet ==
    /\ shmpc.parent = "shmget"
    /\ shm' = [state |-> "live", nattch |-> 0, mem |-> <<>>]
    /\ shmpc' = [shmpc EXCEPT !.parent = "fork"]
    /\ UNCHANGED shmout
    /\ ExUnchanged(<<semvars, msqvars>>)

\* Line 19: fork; the child is the writer, the parent the reader.
ShmFork ==
    /\ shmpc.parent = "fork"
    /\ shmpc' = [parent |-> "sleep", child |-> "shmat"]
    /\ UNCHANGED <<shm, shmout>>
    /\ ExUnchanged(<<semvars, msqvars>>)

\* Line 41: sleep(1) returns after a second, whatever the child has done
\* in it.
ShmSleep ==
    /\ shmpc.parent = "sleep"
    /\ shmpc' = [shmpc EXCEPT !.parent = "shmat"]
    /\ UNCHANGED <<shm, shmout>>
    /\ ExUnchanged(<<semvars, msqvars>>)

\* Lines 27-31 and 43-47: shmat attaches the segment; it fails when the
\* segment has been destroyed, and the process exits with status 1.
ShmAt(who) ==
    /\ shmpc[who] = "shmat"
    /\ IF shm.state \in {"live", "marked"}
       THEN /\ shm' = [shm EXCEPT !.nattch = @ + 1]
            /\ shmpc' = [shmpc EXCEPT
                            ![who] = IF who = "child" THEN "strcpy"
                                     ELSE "printf"]
       ELSE /\ shmpc' = [shmpc EXCEPT ![who] = "exit1"]
            /\ UNCHANGED shm
    /\ UNCHANGED shmout
    /\ ExUnchanged(<<semvars, msqvars>>)

\* Line 33: strcpy copies the string into the segment byte after byte, the
\* terminating zero last.
ShmStrcpy ==
    /\ shmpc.child = "strcpy"
    /\ IF Len(shm.mem) < Len(Hello)
       THEN /\ shm' = [shm EXCEPT !.mem = Append(@, Hello[Len(@) + 1])]
            /\ UNCHANGED shmpc
       ELSE /\ shmpc' = [shmpc EXCEPT !.child = "printf"]
            /\ UNCHANGED shm
    /\ UNCHANGED shmout
    /\ ExUnchanged(<<semvars, msqvars>>)

\* Line 34: the child prints what it wrote.
ShmChildPrintf ==
    /\ shmpc.child = "printf"
    /\ shmpc' = [shmpc EXCEPT !.child = "shmdt"]
    /\ UNCHANGED <<shm, shmout>>
    /\ ExUnchanged(<<semvars, msqvars>>)

\* Line 49: the parent prints the string it finds in the segment: the
\* bytes before the first zero.
ShmParentPrintf ==
    /\ shmpc.parent = "printf"
    /\ shmout' = Append(shmout, shm.mem)
    /\ shmpc' = [shmpc EXCEPT !.parent = "shmdt"]
    /\ UNCHANGED shm
    /\ ExUnchanged(<<semvars, msqvars>>)

\* Lines 36 and 51: shmdt detaches; the last detach of a segment marked for
\* removal destroys it.  Then the child returns from main, the parent goes
\* on to shmctl.
ShmDt(who) ==
    /\ shmpc[who] = "shmdt"
    /\ shm' = [shm EXCEPT !.nattch = @ - 1,
                          !.state = IF @ = "marked" /\ shm.nattch = 1
                                    THEN "gone" ELSE @]
    /\ shmpc' = [shmpc EXCEPT
                    ![who] = IF who = "child" THEN "done" ELSE "shmctl"]
    /\ UNCHANGED shmout
    /\ ExUnchanged(<<semvars, msqvars>>)

\* Line 57: shmctl(IPC_RMID) marks the segment for removal; it is destroyed
\* at once when no process has it attached.  The parent returns from main.
ShmRmid ==
    /\ shmpc.parent = "shmctl"
    /\ shm' = [shm EXCEPT !.state = IF shm.nattch = 0 THEN "gone"
                                    ELSE "marked"]
    /\ shmpc' = [shmpc EXCEPT !.parent = "done"]
    /\ UNCHANGED shmout
    /\ ExUnchanged(<<semvars, msqvars>>)

ShmNext ==
    \/ ShmGet
    \/ ShmFork
    \/ ShmSleep
    \/ \E who \in {"parent", "child"} : ShmAt(who)
    \/ ShmStrcpy
    \/ ShmChildPrintf
    \/ ShmParentPrintf
    \/ \E who \in {"parent", "child"} : ShmDt(who)
    \/ ShmRmid

\* semaphores.c -------------------------------------------------------------

\* semctl(semid, 0, SETVAL, arg) with arg = {1}.
SemArgOne == 0 + 1

\* Line 37: union semun arg = {0}.
SemArg == 0

\* Line 30: semget creates a set of one semaphore.
SemGet ==
    /\ sempc.parent = "semget"
    /\ sem' = [state |-> "live", val |-> 0]
    /\ sempc' = [sempc EXCEPT !.parent = "semctl"]
    /\ UNCHANGED semout
    /\ ExUnchanged(<<shmvars, msqvars>>)

\* Line 38: semctl(SETVAL) sets the semaphore to arg.
SemSetVal ==
    /\ sempc.parent = "semctl"
    /\ sem' = [sem EXCEPT !.val = SemArg]
    /\ sempc' = [sempc EXCEPT !.parent = "fork"]
    /\ UNCHANGED semout
    /\ ExUnchanged(<<shmvars, msqvars>>)

\* Line 44: fork.
SemFork ==
    /\ sempc.parent = "fork"
    /\ sempc' = [parent |-> "down", child |-> "printfA"]
    /\ UNCHANGED <<sem, semout>>
    /\ ExUnchanged(<<shmvars, msqvars>>)

\* printf of one line, by the process that is at `at`.
SemPrintf(who, at, line, then) ==
    /\ sempc[who] = at
    /\ semout' = Append(semout, line)
    /\ sempc' = [sempc EXCEPT ![who] = then]
    /\ UNCHANGED sem
    /\ ExUnchanged(<<shmvars, msqvars>>)

\* Line 51.
SemChildA == SemPrintf("child", "printfA", "Child: A", "up")

\* Lines 20-26 and 53: up adds 1 to the semaphore; semop fails on a set
\* that has been removed, and the child exits with status 1.
SemUp ==
    /\ sempc.child = "up"
    /\ IF sem.state = "live"
       THEN /\ sem' = [sem EXCEPT !.val = @ + 1]
            /\ sempc' = [sempc EXCEPT !.child = "printfB"]
       ELSE /\ sempc' = [sempc EXCEPT !.child = "exit1"]
            /\ UNCHANGED sem
    /\ UNCHANGED semout
    /\ ExUnchanged(<<shmvars, msqvars>>)

\* Line 54; then the child returns from main.
SemChildB == SemPrintf("child", "printfB", "Child: B", "done")

\* Lines 11-17 and 57: down takes 1 from the semaphore and blocks while the
\* semaphore is 0.
SemDown ==
    /\ sempc.parent = "down"
    /\ sem.state = "live"
    /\ sem.val >= 1
    /\ sem' = [sem EXCEPT !.val = @ - 1]
    /\ sempc' = [sempc EXCEPT !.parent = "printfC"]
    /\ UNCHANGED semout
    /\ ExUnchanged(<<shmvars, msqvars>>)

\* Line 58.
SemParentC == SemPrintf("parent", "printfC", "Parent: C", "rmid")

\* Line 59: semctl(IPC_RMID) removes the set; the parent returns from main.
SemRmid ==
    /\ sempc.parent = "rmid"
    /\ sem' = [sem EXCEPT !.state = "gone"]
    /\ sempc' = [sempc EXCEPT !.parent = "done"]
    /\ UNCHANGED semout
    /\ ExUnchanged(<<shmvars, msqvars>>)

SemNext ==
    \/ SemGet
    \/ SemSetVal
    \/ SemFork
    \/ SemChildA
    \/ SemUp
    \/ SemChildB
    \/ SemDown
    \/ SemParentC
    \/ SemRmid

\* message_queus.c ----------------------------------------------------------

\* Lines 37-38: the message the child fills in.
ChildMsg == [mtype |-> 1, mtext |-> Hello]

\* Line 48: the type the parent asks msgrcv for.
msgtyp == 1

\* Lines 16-22: ftok and msgget(IPC_CREAT); the key names no queue, so an
\* empty queue is created.
MsgGet ==
    /\ msqpc.parent = "msgget"
    /\ msq' = [state |-> "live", queue |-> <<>>]
    /\ msqpc' = [msqpc EXCEPT !.parent = "fork"]
    /\ UNCHANGED msqin
    /\ ExUnchanged(<<shmvars, semvars>>)

\* Line 29: fork; the child is the sender, the parent the receiver.
MsgFork ==
    /\ msqpc.parent = "fork"
    /\ msqpc' = [parent |-> "msgrcv", child |-> "msgsnd"]
    /\ UNCHANGED <<msq, msqin>>
    /\ ExUnchanged(<<shmvars, semvars>>)

\* Lines 36-43: msgsnd appends the message to the queue; it fails on a
\* queue that has been removed, and the child exits with status 1.
MsgSnd ==
    /\ msqpc.child = "msgsnd"
    /\ IF msq.state = "live"
       THEN /\ msq' = [msq EXCEPT !.queue = Append(@, ChildMsg)]
            /\ msqpc' = [msqpc EXCEPT !.child = "printf"]
       ELSE /\ msqpc' = [msqpc EXCEPT !.child = "exit1"]
            /\ UNCHANGED msq
    /\ UNCHANGED msqin
    /\ ExUnchanged(<<shmvars, semvars>>)

\* Line 44; then the child returns from main.
MsgChildPrintf ==
    /\ msqpc.child = "printf"
    /\ msqpc' = [msqpc EXCEPT !.child = "done"]
    /\ UNCHANGED <<msq, msqin>>
    /\ ExUnchanged(<<shmvars, semvars>>)

\* The positions of the messages of type typ in queue q.
OfType(q, typ) == {a \in DOMAIN q : q[a].mtype = typ}

\* A receive that copies the message and leaves it in the queue.
WithoutNothing(q, a) == q

\* Queue q without its message at position a.
Without(q, a) == SubSeq(q, 1, a - 1) \o SubSeq(q, a + 1, Len(q))

\* Line 48: msgrcv(.., 1, 0) takes the first message of type 1 from the
\* queue and blocks while there is none.
MsgRcv ==
    /\ msqpc.parent = "msgrcv"
    /\ msq.state = "live"
    /\ OfType(msq.queue, msgtyp) # {}
    /\ \E a \in OfType(msq.queue, msgtyp) :
           /\ \A b \in OfType(msq.queue, msgtyp) : a <= b
           /\ msqin' = Append(msqin, msq.queue[a])
           /\ msq' = [msq EXCEPT !.queue = Without(@, a)]
    /\ msqpc' = [msqpc EXCEPT !.parent = "printf"]
    /\ ExUnchanged(<<shmvars, semvars>>)

\* Line 52.
MsgParentPrintf ==
    /\ msqpc.parent = "printf"
    /\ msqpc' = [msqpc EXCEPT !.parent = "msgctl"]
    /\ UNCHANGED <<msq, msqin>>
    /\ ExUnchanged(<<shmvars, semvars>>)

\* Line 54: msgctl(IPC_RMID) removes the queue; the parent returns from
\* main.
MsgRmid ==
    /\ msqpc.parent = "msgctl"
    /\ msq' = [msq EXCEPT !.state = "gone"]
    /\ msqpc' = [msqpc EXCEPT !.parent = "done"]
    /\ UNCHANGED msqin
    /\ ExUnchanged(<<shmvars, semvars>>)

MsgNext ==
    \/ MsgGet
    \/ MsgFork
    \/ MsgSnd
    \/ MsgChildPrintf
    \/ MsgRcv
    \/ MsgParentPrintf
    \/ MsgRmid

\* The three programs run side by side, every process at its own pace.
NextExamples == ShmNext \/ SemNext \/ MsgNext

SpecExamples == Init /\ [][NextExamples]_vars

\* Fair scheduling: a program that has a process able to take a step takes
\* one.
ExamplesFairness ==
    /\ WF_vars(ShmNext)
    /\ WF_vars(SemNext)
    /\ WF_vars(MsgNext)

SpecExamplesFair == Init /\ [][NextExamples]_vars /\ ExamplesFairness

\* ------------------------------------------------------------ claims

\* The pipe ends the parent holds open.
ParentPipeFds == {fd \in DOMAIN pfd : pfd[fd] # TTY}

AllTerminated == \A k \in Stages : proc[k].st \in {"none", "reaped"}

\* Every stage of the line has been forked and has called execvp.
AllExeced ==
    /\ num_cmds > 0
    /\ \A k \in 0..(num_cmds - 1) :
           proc[k].st \in {"running", "zombie", "reaped"}

\* C1: for a pipeline of N commands, 1 <= N <= MAX_CMDS, in which every
\* pipe() and fork() succeeds, the parent has created exactly N-1 pipes and,
\* once the spawn loop has finished, holds no open end of any of them.
C1_ParentHoldsNoPipeEnd ==
    (pc \in {"wait", "prompt"} /\ num_cmds > 0) =>
        /\ num_cmds <= MAX_CMDS
        /\ npipes = num_cmds - 1
        /\ nforks = num_cmds
        /\ ParentPipeFds = {}

C1_Witness ==
    /\ pc = "wait"
    /\ j = 0
    /\ num_cmds = MAX_CMDS
    /\ npipes = MAX_CMDS - 1
    /\ ParentPipeFds = {}

\* What stage k of n has as standard input and output when it calls execvp.
ExpectedIn(k) == IF k > 0 THEN RD(k - 1) ELSE TTY

ExpectedOut(k, n) == IF k < n - 1 THEN WR(k) ELSE TTY

\* At its execvp call, stage k holds the read end of pipe k-1 as standard
\* input (if k > 0), the write end of pipe k as standard output (if
\* k < N-1), and no other copy of any pipe end.
ChildFdsAtExec ==
    \A k \in Stages :
        proc[k].st \in {"running", "zombie", "reaped"} =>
            LET t == proc[k].xfds
            IN  /\ t[STDIN_FILENO] = ExpectedIn(k)
                /\ t[STDOUT_FILENO] = ExpectedOut(k, num_cmds)
                /\ \A fd \in (DOMAIN t) \ {STDIN_FILENO, STDOUT_FILENO} :
                       t[fd] = TTY

\* Each pipe end is open in no process but the stage that owns it, and in
\* that stage while it runs.
EndsOwned ==
    \A p \in 0..(num_cmds - 2) :
        /\ Holders(WR(p)) = (IF proc[p].st = "running" THEN {p} ELSE {})
        /\ Holders(RD(p)) = (IF proc[p + 1].st = "running" THEN {p + 1} ELSE {})

\* C2, as stated: at its execvp call every stage holds exactly its two pipe
\* ends, hence once all children have reached exec each pipe end is open in
\* one process only.
C2_AsStated == ChildFdsAtExec /\ (AllExeced => EndsOwned)

\* C2, amended: at its execvp call every stage holds exactly its two pipe
\* ends; once all children have reached exec and the parent has finished
\* the spawn loop, each pipe end is open in no process but the stage that
\* owns it.
C2_ChildFdsAndOwnership ==
    /\ ChildFdsAtExec
    /\ (AllExeced /\ pc \in {"wait", "prompt"}) => EndsOwned

C2_Witness ==
    /\ pc = "wait"
    /\ num_cmds = 3
    /\ \A k \in 0..2 : proc[k].st = "running"
    /\ Holders(RD(0)) = {1}
    /\ Holders(WR(1)) = {1}

\* C3: join barrier.  At every prompt the parent has no child, running or
\* terminated and not reaped, from any earlier line.
C3_JoinBarrier == pc = "prompt" => AllTerminated

C3_Witness ==
    /\ pc = "prompt"
    /\ num_cmds = 3
    /\ \A k \in 0..2 : proc[k].st = "reaped"
    /\ proc[1].status # 0
    /\ proc[2].status = 0

RECURSIVE IsPrefix(_, _)
IsPrefix(a, b) ==
    \/ a = <<>>
    \/ /\ b # <<>>
       /\ Head(a) = Head(b)
       /\ IsPrefix(Tail(a), Tail(b))

\* The three-stage lines "<source> | cat | wc", the source writing nothing
\* (true), one byte, or more bytes than a pipe holds.
Sources == {CmdTrue, CmdOne, CmdBig}

\* C5: in "S-emitter | cat | wc" the bytes wc receives are always a prefix
\* of S (in order, none lost or duplicated), and when wc has seen the end of
\* the stream and terminated it has received exactly S, so its count is
\* the length of S.
C5_Composition ==
    \A c \in Sources :
        input = Render(<<c, CmdCat, CmdWc>>) =>
            /\ IsPrefix(proc[2].got, StartOut(c))
            /\ proc[2].st \in {"zombie", "reaped"} =>
                   /\ proc[2].got = StartOut(c)
                   /\ Len(proc[2].got) = Len(StartOut(c))
                   /\ proc[2].status = 0

C5_Witness ==
    /\ input = Render(<<CmdBig, CmdCat, CmdWc>>)
    /\ Len(StartOut(CmdBig)) > PipeCap
    /\ pc = "prompt"
    /\ proc[2].st = "reaped"
    /\ proc[2].got = StartOut(CmdBig)

\* The stages whose execvp returned, and reported it.
ExecFailed == {k \in Stages : proc[k].xfail /\ proc[k].status # 139}

\* The commands of the line execvp does not find.
NotFound ==
    {k \in 0..(num_cmds - 1) : ExecOutcomes(parse_args(cmds[k + 1])) = {"error"}}

\* C6: exec-failure isolation.  A child whose execvp fails reports one error
\* and terminates with a non-zero status, and no other child does; unless
\* pipe() or fork() fails, the parent goes on, forks every stage, and is
\* back at the prompt only when it has reaped all N children, the failing
\* ones having reported by then.
C6_ExecFailureIsolated ==
    /\ \A k \in Stages :
           proc[k].xfail =>
               /\ proc[k].st \in {"zombie", "reaped"}
               /\ proc[k].status # 0
    /\ errs = Cardinality(ExecFailed)
    /\ \A k \in NotFound :
           proc[k].st \in {"running", "zombie", "reaped"} => proc[k].xfail
    /\ (errs > 0 /\ failed = "") => pc \in {"pipe", "fork", "close", "wait", "prompt"}
    /\ (pc \in {"wait", "prompt"}) =>
           \A k \in 0..(num_cmds - 1) : proc[k].st # "none"
    /\ pc = "prompt" =>
           /\ \A k \in 0..(num_cmds - 1) : proc[k].st = "reaped"
           /\ NotFound \subseteq ExecFailed
           /\ errs >= Cardinality(NotFound)

C6_Witness ==
    /\ pc = "prompt"
    /\ num_cmds = 3
    /\ NotFound = {1}
    /\ ExecFailed = {1}
    /\ errs = 1
    /\ proc[1].status = 1
    /\ \A k \in {0, 2} : proc[k].st = "reaped" /\ proc[k].status = 0

\* The parent's exit status: -1 while it runs.
ExitStatus == IF pc = "done" THEN 0 ELSE IF pc = "exit1" THEN 1 ELSE -1

\* C7: on the line "exit" and at the end of the input the parent leaves the
\* loop, creates no pipe and forks no process for that read, and ends with
\* status 0; and it returns from main in no other case than an exit line or
\* the end of the input.
C7_ExitStopsLoop ==
    /\ (input = ExitLine \/ eof) =>
           /\ pc = "done"
           /\ ExitStatus = 0
           /\ npipes = 0
           /\ nforks = 0
    /\ pc = "done" => (IsExit(input) \/ eof)

C7_Witness ==
    /\ input = ExitLine
    /\ ~eof
    /\ pc = "done"
    /\ num_cmds = 3
    /\ AllTerminated

\* C8: a line whose first token only starts with "exit" ("exitfoo") does
\* not stop the loop: it runs as a one-word command, one worker is forked,
\* and the parent prompts again.
C8_ExitFooIsACommand ==
    input = ExitFooLine =>
        /\ pc # "done"
        /\ cmds = <<SubSeq(ExitFooLine, 1, Len(ExitFooLine) - 1)>>
        /\ (pc \in {"wait", "prompt"} => nforks = 1)

\* C9: a line of more than MAX_CMDS segments is refused: no pipe is created
\* and no process forked for it.
C9_TooManyCommandsSpawnNothing ==
    Len(Segments(input)) > MAX_CMDS => (npipes = 0 /\ nforks = 0)

\* C10: when pipe() fails, every worker already forked has been waited for
\* and reaped by the time the parent surfaces the error and goes.
C10_PipeFailureReapsWorkers == failed = "pipe" => AllTerminated

\* Once the spawn loop is over nobody but stage p holds the write end of
\* pipe p: when stage p has exited, stage p+1 reads the end of the stream.
WriteEndsReleased ==
    pc = "wait" =>
        \A p \in 0..(num_cmds - 2) :
            /\ Holders(WR(p)) \subseteq {p}
            /\ proc[p].st \in {"zombie", "reaped"} => Holders(WR(p)) = {}

\* C4: the pipe lifecycle does not deadlock.  Under fair scheduling, with
\* stages that end after their output (stage 0), at the end of their input
\* or on a write nobody can read, a stage that has exited leaves the write
\* end of its pipe open in no process, every forked worker terminates, and
\* a parent that has finished spawning gets back to the prompt.
C4_NoDeadlock ==
    /\ []WriteEndsReleased
    /\ []<>(\A k \in Stages : ~Alive(k))
    /\ (pc = "wait") ~> (pc = "prompt")

C4_Witness ==
    /\ pc = "prompt"
    /\ input = Render(<<CmdBig, CmdCat, CmdNope>>)
    /\ \A k \in 0..2 : proc[k].st = "reaped"
    /\ proc[1].status = 141

\* C11: a resource error is never fatal to the parent.  After a fork() that
\* failed the parent is still running and goes back to reading a line; it
\* stops only from the prompt, on an exit line or at the end of the input.
C11_ForkFailureNotFatal ==
    /\ failed = "fork" => pc \notin {"exit1", "done"}
    /\ pc \in {"exit1", "done"} /\ failed # "pipe" => (IsExit(input) \/ eof)

\* C12: a line without a command is not run.  For a blank line and for a
\* line with a segment that is empty after trimming ("true | | wc") no
\* pipe is created and no worker forked for it.
C12_EmptyCommandSpawnsNothing ==
    input \in {BlankLine, EmptySegLine} => (npipes = 0 /\ nforks = 0)

\* C13: a command of more tokens than MAX_ARGS is refused (TooManyArguments)
\* and is not run: no child calls execvp with an argument vector that is
\* shorter than the command's tokens.
C13_TooManyArgumentsNotRun ==
    \A k \in 0..(num_cmds - 1) :
        proc[k].st \in {"running", "zombie", "reaped"} =>
            /\ Len(Words(cmds[k + 1])) <= MAX_ARGS
            /\ parse_args(cmds[k + 1]) = Words(cmds[k + 1])

\* The parent is inside the spawn loop of lines 55-93.
Spawning == pc \in {"pipe", "fork", "close"}

\* C14: pipeline construction never waits on a worker.  While the parent is
\* in the spawn loop it has not called wait for this line, no child of the
\* line has been reaped, and its next step (pipe, fork or close) can be
\* taken whatever the children have or have not done; when it reaches the
\* wait loop all N stages have been forked.
C14_SpawnNeverWaits ==
    /\ Spawning =>
           /\ j = 0
           /\ \A k \in Stages : proc[k].st # "reaped"
           /\ ENABLED Parent
    /\ pc = "wait" => nforks = num_cmds

\* Stage 0 is blocked writing to a full pipe and stage 1 is about to be
\* forked.
C14_Witness ==
    /\ pc = "fork"
    /\ i = 1
    /\ num_cmds = 3
    /\ proc[0].st = "running"
    /\ proc[0].out # <<>>
    /\ Len(buf[0]) = PipeCap
    /\ proc[1].st = "none"
    /\ ENABLED ForkOk

\* The processes created for the current line.
Created == {k \in Stages : proc[k].st # "none"}

\* What a child is doing: waiting to call execvp, running the program
\* execvp loaded, or terminated.  No child is in the code of the parent.
ChildStates == {"none", "forked", "running", "zombie", "reaped"}

\* A process appears only by the parent's fork of line 61, for its stage.
ForkedByParent ==
    \A k \in Stages :
        (proc[k].st = "none" /\ proc'[k].st # "none") =>
            /\ pc = "fork"
            /\ i = k
            /\ proc'[k].st = "forked"
            /\ nforks' = nforks + 1

\* A child's step after fork is execvp: the child becomes the program or
\* terminates, and the step creates no process, calls no wait, moves the
\* parent nowhere and reads no line.
ChildStepStaysChild ==
    \A k \in Stages :
        (proc[k].st = "forked" /\ proc'[k].st # "forked") =>
            /\ proc'[k].st \in {"running", "zombie"}
            /\ \A m \in Stages \ {k} : proc'[m] = proc[m]
            /\ UNCHANGED <<pc, input, i, j, nforks, npipes, pfd, prev_fd>>

ClosedEnds == {closed[a] : a \in DOMAIN closed}

\* C16: single-use descriptor hand-off in the parent.  Every close call of
\* the parent closes a pipe end the parent holds open (never a descriptor
\* it has closed before, never the terminal), no end is closed twice, the
\* ends closed are those of the pipes created for the line that the parent
\* no longer holds, and after the spawn loop each of the 2(N-1) ends has
\* been closed exactly once.  When prev_fd and pipefd are read they name
\* the ends of the latest pipes, still open, not descriptors of an earlier
\* stage or line.
C16_SingleUseDescriptors ==
    /\ \A a \in DOMAIN closed : closed[a][1] \in {"r", "w"}
    /\ \A a, b \in DOMAIN closed : a # b => closed[a] # closed[b]
    /\ failed = "" =>
           \A p \in Stages : \A d \in {RD(p), WR(p)} :
               d \in ClosedEnds <=> (p < npipes /\ ~Holds(pfd, d))
    /\ pc \in {"wait", "prompt"} => Len(closed) = 2 * npipes
    /\ (Spawning /\ prev_fd # -1) =>
           /\ prev_fd \in DOMAIN pfd
           /\ pfd[prev_fd] = RD(i - 1)
    /\ (pc \in {"fork", "close"} /\ i < num_cmds - 1) =>
           /\ {pipefd[1], pipefd[2]} \subseteq DOMAIN pfd
           /\ pfd[pipefd[1]] = RD(i)
           /\ pfd[pipefd[2]] = WR(i)

\* A line of MAX_CMDS commands has been run: 18 close calls.
C16_Witness ==
    /\ pc = "prompt"
    /\ num_cmds = MAX_CMDS
    /\ npipes = MAX_CMDS - 1
    /\ Len(closed) = 2 * (MAX_CMDS - 1)
    /\ pfd = StdFds

\* A string of spaces and newlines only.
Blank(s) == \A a \in DOMAIN s : s[a] \in {SP, NL}

\* No space in front, no space or newline at the end.
Trimmed(s) == s = <<>> \/ (s[1] # SP /\ s[Len(s)] \notin {SP, NL})

\* C17: for every segment over the space, the newline and a non-blank
\* character, trim returns a string with no leading space and no trailing
\* space or newline, the empty string for a segment of spaces and newlines
\* only, and trim of what trim returned returns the same string.
C17_TrimStripsAndIsIdempotent ==
    /\ [](calls >= 1 => Trimmed(ret))
    /\ []((calls >= 1 /\ Blank(str)) => ret = <<>>)
    /\ [][(calls = 1 /\ calls' = 2) => ret' = ret]_vars

\* C18: in shared_memory.c, in every interleaving, the parent reads the
\* segment only after the child has finished writing "Hello from child!",
\* so what it prints is that string, and the child has attached the
\* segment before the parent marks it for removal.
C18_ParentReadsAfterWrite ==
    /\ shmpc.parent \in {"shmdt", "shmctl", "done"} => shmout = <<Hello>>
    /\ shm.state \in {"marked", "gone"} =>
           shmpc.child \in {"strcpy", "printf", "shmdt", "done"}

\* The parent of semaphores.c has returned from down.
SemParentPastDown == sempc.parent \in {"printfC", "rmid", "done"}

\* The child of semaphores.c has returned from up.
SemChildPastUp == sempc.child \in {"printfB", "done"}

\* Line a of the output comes before line b.
SemBefore(a, b) ==
    \E x, y \in DOMAIN semout : x < y /\ semout[x] = a /\ semout[y] = b

\* C19: in semaphores.c, the semaphore being set to 0 before the fork, in
\* every interleaving the parent's down returns only after the child's up:
\* "Parent: C" is printed only after "Child: A" (it may come before or
\* after "Child: B"), and the parent removes the set only after the child's
\* up has returned, so that up never finds the set removed.
C19_DownWaitsForUp ==
    /\ SemParentPastDown => SemChildPastUp
    /\ (\E x \in DOMAIN semout : semout[x] = "Parent: C") =>
           SemBefore("Child: A", "Parent: C")
    /\ sem.state = "gone" => SemChildPastUp
    /\ sempc.child # "exit1"
    /\ sempc.parent = "down" /\ ~SemChildPastUp => ~ENABLED SemDown

\* "Parent: C" is out before "Child: B", and the set is removed while the
\* child has yet to print.
C19_Witness ==
    /\ semout = <<"Child: A", "Parent: C">>
    /\ sem.state = "gone"
    /\ sempc.child = "printfB"
    /\ sempc.parent = "done"

\* C20: in message_queus.c, the queue being empty at the start, in every
\* interleaving the parent's msgrcv for type 1 returns only after the child's
\* msgsnd and returns the very message the child sent; the message is
\* delivered once and is no longer in the queue; the queue is removed only
\* after the receipt, so that msgsnd never finds the queue removed; and both
\* processes terminate.
C20_MessageDeliveredOnce ==
    /\ [](msqpc.parent \in {"printf", "msgctl", "done"} =>
              /\ msqpc.child \in {"printf", "done"}
              /\ msqin = <<ChildMsg>>
              /\ msq.queue = <<>>)
    /\ [](msqpc.parent \in {"msgget", "fork", "msgrcv"} => msqin = <<>>)
    /\ [](msq.state = "gone" => msqin = <<ChildMsg>>)
    /\ [](msqpc.child # "exit1" /\ msqpc.parent # "exit1")
    /\ <>(msqpc.parent = "done" /\ msqpc.child = "done")

C20_Witness ==
    /\ msqpc.parent = "done"
    /\ msqpc.child = "done"
    /\ msqin = <<ChildMsg>>
    /\ msq = [state |-> "gone", queue |-> <<>>]

====
